---- MODULE Spec2Model ----
(***************************************************************************)
(* Model of src/miniaudio.c: the Windows setenv shim (lines 36-47) and the *)
(* process-wide initialization hook init_miniaudio (lines 49-61).          *)
(*                                                                         *)
(* The process environment is a map from the defined variable names to C   *)
(* strings (a name outside its domain is not defined).  A                  *)
(* C string is a finite sequence of characters; the CRT functions the shim *)
(* calls are modelled by their documented behaviour:                       *)
(*   getenv_s(&size, NULL, 0, name)  size query: 0 when name is not        *)
(*       defined, strlen(value)+1 when it is; EINVAL when name is NULL     *)
(*       (and the invalid-parameter handler lets execution continue);      *)
(*   _putenv_s(name, value)  EINVAL when name or value is NULL; an empty   *)
(*       value removes name from the environment; otherwise name is set.   *)
(***************************************************************************)
EXTENDS Integers, Sequences, FiniteSets, TLC

VARIABLES env, call

vars == <<env, call>>

\* ---- bounds -------------------------------------------------------------
MaxLen == 3

\* ---- values -------------------------------------------------------------
\* a null name pointer, and a null value pointer (a one-element sequence that
\* is no string over Chars)
NULL == "NULL"
NULLSTR == <<NULL>>
EINVAL == 22

PULSE_LATENCY_MSEC == "PULSE_LATENCY_MSEC"
Names == {PULSE_LATENCY_MSEC, "HOME"}
Chars == {"0", "1"}
Strings == UNION {[1..n -> Chars] : n \in 0..MaxLen}
PulseValue == <<"1", "0", "0">>
Overwrites == {0, 1, -1}

strlen(s) == Len(s)

\* ---- CRT functions called by the shim -----------------------------------
\* getenv_s(&envsize, NULL, 0, name): the pair (errcode, envsize)
getenv_s(e, name) ==
    IF name = NULL THEN [errcode |-> EINVAL, envsize |-> 0]
    ELSE IF name \notin DOMAIN e THEN [errcode |-> 0, envsize |-> 0]
    ELSE [errcode |-> 0, envsize |-> strlen(e[name]) + 1]

\* _putenv_s(name, value): the pair (new environment, result)
putenv_s(e, name, value) ==
    IF name = NULL \/ value = NULLSTR THEN [env |-> e, ret |-> EINVAL]
    ELSE IF strlen(value) = 0
         THEN [env |-> [n \in DOMAIN e \ {name} |-> e[n]], ret |-> 0]
         ELSE [env |-> [n \in DOMAIN e \cup {name} |->
                            IF n = name THEN value ELSE e[n]],
               ret |-> 0]

\* ---- int setenv(const char *name, const char *value, int overwrite) -----
setenv_impl(e, name, value, overwrite) ==
    LET q == getenv_s(e, name)
    IN  IF overwrite = 0 /\ (q.errcode # 0 \/ q.envsize # 0)
        THEN [env |-> e, ret |-> q.errcode]
        ELSE putenv_s(e, name, value)

\* ---- void init_miniaudio(void) ------------------------------------------
\* the hook with the commented-out call of line 59 in effect
init_with_setenv(e) == setenv_impl(e, PULSE_LATENCY_MSEC, PulseValue, 0).env

init_impl(e) == e

\* ---- state machine ------------------------------------------------------
NoCall == [op |-> "none", name |-> NULL, value |-> NULLSTR, overwrite |-> 0, ret |-> 0]

Init ==
    /\ env = [n \in {} |-> <<>>]
    /\ call = NoCall

setenv ==
    \E name \in Names \cup {NULL}, value \in Strings \cup {NULLSTR}, overwrite \in Overwrites :
        LET r == setenv_impl(env, name, value, overwrite)
        IN  /\ env' = r.env
            /\ call' = [op |-> "setenv", name |-> name, value |-> value,
                        overwrite |-> overwrite, ret |-> r.ret]

init_miniaudio ==
    /\ env' = init_impl(env)
    /\ call' = [NoCall EXCEPT !.op = "init_miniaudio"]

Next == setenv \/ init_miniaudio

Spec == Init /\ [][Next]_vars

TypeOK ==
    /\ DOMAIN env \subseteq Names
    /\ \A n \in DOMAIN env : env[n] \in Strings /\ strlen(env[n]) > 0
    /\ call.op \in {"none", "setenv", "init_miniaudio"}

\* ---- helpers of the properties ------------------------------------------
IsSet(e, name) == name \in DOMAIN e
OthersKept(e1, e2, name) ==
    /\ DOMAIN e2 \ {name} = DOMAIN e1 \ {name}
    /\ \A n \in DOMAIN e1 \ {name} : e2[n] = e1[n]
NowHolds(e1, e2, name, value) ==
    /\ IsSet(e2, name) /\ e2[name] = value
    /\ OthersKept(e1, e2, name)
NowRemoved(e1, e2, name) ==
    /\ ~IsSet(e2, name)
    /\ OthersKept(e1, e2, name)
ValidArgs(c) == c.name # NULL /\ c.value # NULLSTR

\* C9: every call of init_miniaudio leaves the process environment as it
\* was, whatever was called before; in particular it never defines
\* PULSE_LATENCY_MSEC.
C9_InitIsNoOp ==
    [][call'.op = "init_miniaudio" =>
          /\ env' = env
          /\ (~IsSet(env, PULSE_LATENCY_MSEC) => ~IsSet(env', PULSE_LATENCY_MSEC))]_vars

\* init_miniaudio has just returned, after an earlier setenv defined HOME,
\* and PULSE_LATENCY_MSEC is still not defined.
C9_Witness ==
    /\ call.op = "init_miniaudio"
    /\ IsSet(env, "HOME")
    /\ ~IsSet(env, PULSE_LATENCY_MSEC)

\* C10 as stated: with overwrite = 0 a defined name keeps its value and 0 is
\* returned, a failed lookup returns its error code with the environment
\* unchanged, and otherwise name is set to value; with overwrite non-zero
\* name is always set to value (stated for non-null name and value).
C10_AsStated ==
    [][call'.op = "setenv" =>
          LET c == call'
          IN  IF c.overwrite = 0 /\ c.name = NULL
                  THEN env' = env /\ c.ret = EINVAL
              ELSE IF c.overwrite = 0 /\ IsSet(env, c.name)
                  THEN env' = env /\ c.ret = 0
              ELSE ValidArgs(c) =>
                       NowHolds(env, env', c.name, c.value) /\ c.ret = 0]_vars

\* C10, what the shim does: as stated, except that where it reaches _putenv_s an
\* empty value removes name instead of setting it, and a null name or value
\* makes _putenv_s fail: the environment is unchanged and its error code is
\* returned.  A call with overwrite = 0 never changes or removes a variable
\* that is defined, so a variable keeps the first non-empty value it got.
C10_Amended ==
    [][call'.op = "setenv" =>
          LET c == call'
          IN  /\ IF c.overwrite = 0 /\ c.name = NULL
                      THEN env' = env /\ c.ret = EINVAL
                  ELSE IF c.overwrite = 0 /\ IsSet(env, c.name)
                      THEN env' = env /\ c.ret = 0
                  ELSE IF ~ValidArgs(c)
                      THEN env' = env /\ c.ret = EINVAL
                  ELSE IF c.value = <<>>
                      THEN NowRemoved(env, env', c.name) /\ c.ret = 0
                  ELSE NowHolds(env, env', c.name, c.value) /\ c.ret = 0
              /\ c.overwrite = 0 =>
                     \A n \in DOMAIN env : IsSet(env', n) /\ env'[n] = env[n]]_vars

\* setenv(name, value, 0) has just returned 0 for a name that was already
\* defined with another value, and the old value is still there.
C10_Witness ==
    /\ call.op = "setenv" /\ call.overwrite = 0 /\ call.ret = 0
    /\ ValidArgs(call) /\ call.value # <<>>
    /\ IsSet(env, call.name) /\ env[call.name] # call.value
====
